---- MODULE Spec2Model ----
(***************************************************************************)
(* A model of stereo_loader/__init__.py: the SEPT loader                   *)
(* (stereo_sept_loader), its download helper (stereo_sept_download), the   *)
(* resampler (resample_df) and the dispatch wrapper (stereo_load).         *)
(*                                                                         *)
(* Python strings are sequences of one-character strings, so that          *)
(* formatting (str(), strftime('%j')), glob matching and np.sort's         *)
(* lexicographic order are computed and not assumed.  A Python value that  *)
(* may be None is a record [type, chars].  A table cell is a record        *)
(* [s, n]: the value s/n, or the missing-value marker NaN when n = 0.      *)
(* Flux values are in tenths (the sentinel -9999.900 is -99999), energies  *)
(* in tenths of keV, mean energies in hundredths of keV, and time in       *)
(* ticks of 1/TicksPerHour hour.                                           *)
(***************************************************************************)
EXTENDS Integers, Sequences, FiniteSets, TLC

(***************************************************************************)
(* Bounds of the model.                                                    *)
(***************************************************************************)
FirstYear == 2011      \* first calendar year of the model's calendar
NumYears == 2          \* the calendar spans FirstYear .. FirstYear+NumYears-1 (+ the days after)
MaxDays == 3           \* longest date range, in days
TodSteps == 2          \* times of day a start/end timestamp may carry (in half days)
MaxRows == 2           \* most rows in one data file
MaxTick == 5           \* a file's samples lie in the first MaxTick ticks of its day
MaxMissing == 2        \* most trailing fields a malformed file's rows lack
MaxFreq == 2           \* largest count in a resample string "<n>h"
HalfHourTicks == 1     \* time resolution: ticks per half hour

TicksPerHour == 2 * HalfHourTicks
DayTicks == 24 * TicksPerHour

(***************************************************************************)
(* Strings.                                                                *)
(***************************************************************************)
Ascii == << ".", "/", "0", "1", "2", "3", "4", "5", "6", "7", "8", "9",
            "A", "E", "X", "_",
            "a", "b", "c", "d", "e", "f", "g", "h", "i", "j", "k", "l", "m",
            "n", "o", "p", "q", "r", "s", "t", "u", "v", "w", "x", "y", "z" >>

\* ord(c), up to an order-preserving renumbering
Code(c) == CHOOSE k \in 1..Len(Ascii) : Ascii[k] = c

\* a function on 1..n as the list it is (no change of value; makes TLC build it once)
List(f) == f \o <<>>

\* str.lower(), character by character
LowerChar(c) == CASE c = "A" -> "a" [] c = "E" -> "e" [] c = "X" -> "x" [] OTHER -> c
Lower(s) == List([k \in 1..Len(s) |-> LowerChar(s[k])])

RECURSIVE StrLess(_, _)
\* Python's (and numpy's) order on strings: lexicographic by code point
StrLess(a, b) ==
    IF a = <<>> THEN b # <<>>
    ELSE IF b = <<>> THEN FALSE
    ELSE IF Head(a) # Head(b) THEN Code(Head(a)) < Code(Head(b))
    ELSE StrLess(Tail(a), Tail(b))

Digits == << "0", "1", "2", "3", "4", "5", "6", "7", "8", "9" >>
DigitChar(d) == Digits[d + 1]

RECURSIVE Str(_)
\* str(n) of a non-negative integer: decimal, no padding
Str(n) == IF n < 10 THEN << DigitChar(n) >>
          ELSE Append(Str(n \div 10), DigitChar(n % 10))

\* date.strftime('%j'): the day of the year, zero-padded to three digits
StrfJ(doy) == << DigitChar(doy \div 100), DigitChar((doy \div 10) % 10), DigitChar(doy % 10) >>

None == [type |-> "NoneType", chars |-> <<>>]
PyStr(s) == [type |-> "str", chars |-> s]
\* Python's truth value of a str-or-None: None and "" are false
Truthy(v) == v.type = "str" /\ v.chars # <<>>

S_e == << "e" >>
S_p == << "p" >>
S_h == << "h" >>
S_i == << "i" >>
S_ele == << "e", "l", "e" >>
S_ion == << "i", "o", "n" >>
S_a == << "a" >>
S_b == << "b" >>
S_sta == << "s", "t", "a" >>
S_stb == << "s", "t", "b" >>
S_ahead == << "a", "h", "e", "a", "d" >>
S_behind == << "b", "e", "h", "i", "n", "d" >>
S_sun == << "s", "u", "n" >>
S_sept == << "s", "e", "p", "t" >>
S_tail == << "_", "1", "m", "i", "n", "_", "l", "2", "_", "v", "0", "3", ".", "d", "a", "t" >>
S_dat == << ".", "d", "a", "t" >>
S_data == << "d", "a", "t", "a" >>
Sep == << "/" >>

(***************************************************************************)
(* The calendar: a day is its number of days since 1 January FirstYear.    *)
(***************************************************************************)
IsLeap(y) == (y % 4 = 0 /\ y % 100 # 0) \/ y % 400 = 0
YearLen(y) == IF IsLeap(y) THEN 366 ELSE 365

RECURSIVE DateFrom(_, _)
DateFrom(y, n) == IF n < YearLen(y) THEN [year |-> y, doy |-> n + 1]
                  ELSE DateFrom(y + 1, n - YearLen(y))

\* Timestamp.year and Timestamp.day_of_year of a day
DateOf(day) == DateFrom(FirstYear, day)

(***************************************************************************)
(* File names, the local data directory and the remote archive.            *)
(***************************************************************************)
Join(parts) == LET RECURSIVE J(_)
                   J(k) == IF k > Len(parts) THEN <<>> ELSE parts[k] \o J(k + 1)
               IN J(1)

\* the name stereo_sept_download stores a day's file under (line 77)
FileName(spacecraft, species, viewing, day) ==
    Join(<< S_sept, <<"_">>, Lower(spacecraft), <<"_">>, Lower(species), <<"_">>,
            Lower(viewing), <<"_">>, Str(DateOf(day).year), <<"_">>,
            StrfJ(DateOf(day).doy), S_tail >>)

\* the part of the loader's glob pattern before its "*" (line 136)
PatternPrefix(spacecraft, species, viewing, day) ==
    Join(<< S_sept, <<"_">>, spacecraft, <<"_">>, species, <<"_">>,
            viewing, <<"_">>, Str(DateOf(day).year), <<"_">>,
            Str(DateOf(day).doy), <<"_">> >>)

\* fnmatch of a file name against  <prefix>*.dat
Matches(name, prefix) ==
    /\ Len(name) >= Len(prefix) + Len(S_dat)
    /\ SubSeq(name, 1, Len(prefix)) = prefix
    /\ SubSeq(name, Len(name) - Len(S_dat) + 1, Len(name)) = S_dat

RECURSIVE RStripSep(_)
\* s.rstrip('/')
RStripSep(s) == IF s # <<>> /\ s[Len(s)] = "/" THEN RStripSep(SubSeq(s, 1, Len(s) - 1)) ELSE s

\* os.getcwd()
Cwd == << "/", "c" >>

\* the directory part glob.glob puts before each match of  path + os.sep + name-pattern :
\* os.path.split's head, which has lost its trailing separators
GlobDir(path) == RStripSep(path \o Sep)

\* pathlib's Path(path).resolve(), as pooch.retrieve applies it to its path argument
Resolve(path) == IF path # <<>> /\ path[1] = "/" THEN RStripSep(path)
                 ELSE Cwd \o Sep \o RStripSep(path)

\* lines 63-65: a separator is added to the end of a path that lacks one
WithSep(path) == IF Truthy(path) /\ path.chars[Len(path.chars)] # "/"
                 THEN PyStr(path.chars \o Sep) ELSE path

\* the last component of a path string: the file it names in the data directory
RECURSIVE Basename(_)
Basename(s) == IF \E k \in 1..Len(s) : s[k] = "/" THEN Basename(Tail(s)) ELSE s

(***************************************************************************)
(* The channel catalog (lines 143-171).                                    *)
(***************************************************************************)
RECURSIVE Bisect(_, _, _)
\* the largest s in lo..hi with s*s <= n
Bisect(n, lo, hi) ==
    IF lo = hi THEN lo
    ELSE LET mid == (lo + hi + 1) \div 2
         IN IF mid <= n \div mid THEN Bisect(n, mid, hi) ELSE Bisect(n, lo, mid - 1)

ISqrt(n) == IF n = 0 THEN 0 ELSE Bisect(n, 1, n)

\* the next decimal digit of a square root, by the long-hand method:
\* the largest d with (10*s + d)^2 <= 100*s^2 + 100*r
NextDigit(s, r) == CHOOSE d \in 0..9 :
                      /\ 20 * s * d + d * d <= 100 * r
                      /\ (d = 9 \/ 20 * s * (d + 1) + (d + 1) * (d + 1) > 100 * r)

\* np.sqrt(upper*lower) for bounds given in tenths, as hundredths rounded to nearest
NpSqrt(lower, upper) ==
    LET n  == lower * upper
        s  == ISqrt(n)
        r  == n - s * s
        d  == NextDigit(s, r)
        h  == 10 * s + d
        r1 == 100 * r - (20 * s * d + d * d)
        d2 == NextDigit(h, r1)
    IN  IF d2 >= 5 THEN h + 1 ELSE h

\* line 144, each label  "<lower>-<upper> keV"  as its two numbers, in tenths of keV
ch_strings == <<
    [lower |-> 450, upper |-> 550], [lower |-> 550, upper |-> 650],
    [lower |-> 650, upper |-> 750], [lower |-> 750, upper |-> 850],
    [lower |-> 850, upper |-> 1050], [lower |-> 1050, upper |-> 1250],
    [lower |-> 1250, upper |-> 1450], [lower |-> 1450, upper |-> 1650],
    [lower |-> 1650, upper |-> 1950], [lower |-> 1950, upper |-> 2250],
    [lower |-> 2250, upper |-> 2550], [lower |-> 2550, upper |-> 2950],
    [lower |-> 2950, upper |-> 3350], [lower |-> 3350, upper |-> 3750],
    [lower |-> 3750, upper |-> 4250] >>

\* lines 145-151
mean_E == List([k \in 1..Len(ch_strings) |-> NpSqrt(ch_strings[k].lower, ch_strings[k].upper)])

\* lines 153-156; DE in units of 0.0001 MeV
echannels ==
    [bins |-> << 2, 3, 4, 5, 6, 7, 8, 9, 10, 11, 12, 13, 14, 15, 16 >>,
     ch_strings |-> ch_strings,
     DE |-> << 100, 100, 100, 100, 200, 200, 200, 200, 300, 300, 300, 400, 400, 400, 500 >>,
     mean_E |-> mean_E]

\* line 160 with the fifth value mistyped
pmean_E_typo == << 8830, 9690, 10556, 11422, 12774, 14610, 16493, 18338, 20561, 23256,
                   25955, 29206, 33078, 36959, 41309, 46634, 52479, 58786, 66066, 74321,
                   83090, 92776, 104536, 117931, 132316, 148637, 167004, 187297, 210107,
                   380176 >>

\* line 160, in hundredths of keV
pmean_E == << 8830, 9690, 10556, 11422, 12747, 14610, 16493, 18338, 20561, 23256,
              25955, 29206, 33078, 36959, 41309, 46634, 52479, 58786, 66066, 74321,
              83090, 92776, 104536, 117931, 132316, 148637, 167004, 187297, 210107,
              380176 >>

\* lines 157-160
pchannels ==
    [bins |-> << 2, 3, 4, 5, 6, 7, 8, 9, 10, 11, 12, 13, 14, 15, 16, 17, 18, 19, 20, 21,
                 22, 23, 24, 25, 26, 27, 28, 29, 30, 31 >>,
     ch_strings |-> <<
        [lower |-> 841, upper |-> 927], [lower |-> 927, upper |-> 1013],
        [lower |-> 1013, upper |-> 1100], [lower |-> 1100, upper |-> 1186],
        [lower |-> 1186, upper |-> 1370], [lower |-> 1370, upper |-> 1558],
        [lower |-> 1558, upper |-> 1746], [lower |-> 1746, upper |-> 1926],
        [lower |-> 1926, upper |-> 2195], [lower |-> 2195, upper |-> 2464],
        [lower |-> 2464, upper |-> 2734], [lower |-> 2734, upper |-> 3120],
        [lower |-> 3120, upper |-> 3507], [lower |-> 3507, upper |-> 3895],
        [lower |-> 3895, upper |-> 4381], [lower |-> 4381, upper |-> 4964],
        [lower |-> 4964, upper |-> 5548], [lower |-> 5548, upper |-> 6229],
        [lower |-> 6229, upper |-> 7007], [lower |-> 7007, upper |-> 7883],
        [lower |-> 7883, upper |-> 8758], [lower |-> 8758, upper |-> 9828],
        [lower |-> 9828, upper |-> 11119], [lower |-> 11119, upper |-> 12508],
        [lower |-> 12508, upper |-> 13997], [lower |-> 13997, upper |-> 15784],
        [lower |-> 15784, upper |-> 17670], [lower |-> 17670, upper |-> 19853],
        [lower |-> 19853, upper |-> 22236], [lower |-> 22236, upper |-> 65000] >>,
     DE |-> << 86, 86, 87, 86, 184, 188, 188, 180, 269, 269, 270, 386, 387, 388, 486, 583,
               584, 681, 778, 876, 875, 1070, 1291, 1389, 1489, 1787, 1886, 2183, 2383,
               42764 >>,
     mean_E |-> pmean_E]

\* lines 169-171: one row per channel, indexed by its bin id
FromDict(channels_dict) ==
    List([k \in 1..Len(channels_dict.bins) |->
            [bin |-> channels_dict.bins[k],
             ch_strings |-> channels_dict.ch_strings[k],
             DE |-> channels_dict.DE[k],
             mean_E |-> channels_dict.mean_E[k]]])

\* lines 163-166: the species' dictionary; for any other species the name stays unbound
Bound(species) == species = S_ele \/ species = S_ion
ChannelsDict(species) == IF species = S_ele THEN echannels ELSE pchannels

\* lines 178-181
col_names(channels_dict_df) ==
    << [k |-> "julian_date", i |-> 0], [k |-> "year", i |-> 0], [k |-> "frac_doy", i |-> 0],
       [k |-> "hour", i |-> 0], [k |-> "min", i |-> 0], [k |-> "sec", i |-> 0] >>
    \o [j \in 1..Len(channels_dict_df) |-> [k |-> "ch", i |-> channels_dict_df[j].bin]]
    \o [j \in 1..Len(channels_dict_df) |-> [k |-> "err_ch", i |-> channels_dict_df[j].bin]]
    \o << [k |-> "integration_time", i |-> 0] >>

\* line 196: the columns dropped unless all_columns
Helper == { "julian_date", "year", "frac_doy", "hour", "min", "sec", "integration_time" }

(***************************************************************************)
(* Data files and tables.  A file is [rows, missing]: each row has a       *)
(* sample time t (ticks into the file's day) and a value v that all its    *)
(* flux and uncertainty fields carry; every row of the file lacks its last *)
(* `missing` fields.  A table is [columns, data], each data row being      *)
(* [time, vals] with vals aligned to columns.                              *)
(***************************************************************************)
Sentinel == -99999

NaN == [s |-> 0, n |-> 0]
Num(x) == [s |-> x, n |-> 1]
IsNaN(c) == c.n = 0
\* c == x, as floats compare (NaN equals nothing)
CellEq(c, x) == c.n > 0 /\ c.s = x * c.n

\* the Julian date (in ticks) of a calendar time: Julian days begin at noon
JulianOf(time) == time + DayTicks \div 2

\* the whitespace-separated fields of one row of a day's file for nch channels
Fields(row, day, nch, missing) ==
    LET time == day * DayTicks + row.t
        full == << JulianOf(time), DateOf(day).year, DateOf(day).doy,
                   row.t \div TicksPerHour,
                   ((row.t % TicksPerHour) * 30) \div HalfHourTicks, 0 >>
                \o [j \in 1..(2 * nch) |-> row.v]
                \o << 60 >>
    IN  SubSeq(full, 1, Len(full) - missing)

\* pd.read_csv(file, header=None, sep='\s+', names=col_names, comment='#') on rows with
\* at most len(names) fields: a row's missing trailing fields are filled with NaN
read_csv(file, day, names) ==
    LET nch == (Len(names) - Cardinality(Helper)) \div 2
    IN  [columns |-> names,
         data |-> List([r \in 1..Len(file.rows) |->
                     LET f == Fields(file.rows[r], day, nch, file.missing)
                     IN  [time |-> r - 1,
                          vals |-> List([j \in 1..Len(names) |->
                                      IF j <= Len(f) THEN Num(f[j]) ELSE NaN])]])]

\* pd.concat([df, t_df])
concat(df, t_df) == [columns |-> df.columns, data |-> df.data \o t_df.data]

ColIndex(df, key) == CHOOSE j \in 1..Len(df.columns) : df.columns[j].k = key

\* pd.to_datetime(julian_date, origin='julian', unit='D'); NaT (here -1) for NaN
to_datetime(jd) == IF IsNaN(jd) THEN 0 - 1 ELSE jd.s - DayTicks \div 2

\* lines 191-192
SetIndex(df) ==
    [columns |-> df.columns,
     data |-> List([r \in 1..Len(df.data) |->
                 [time |-> to_datetime(df.data[r].vals[ColIndex(df, "julian_date")]),
                  vals |-> df.data[r].vals]])]

SelectSeq2(seq, keep) ==
    LET RECURSIVE F(_)
        F(j) == IF j > Len(seq) THEN <<>>
                ELSE IF keep[j] THEN << seq[j] >> \o F(j + 1) ELSE F(j + 1)
    IN  F(1)

\* line 196: df.drop(columns=[...])
drop(df) ==
    LET keep == List([j \in 1..Len(df.columns) |-> df.columns[j].k \notin Helper])
    IN  [columns |-> SelectSeq2(df.columns, keep),
         data |-> List([r \in 1..Len(df.data) |->
                     [time |-> df.data[r].time,
                      vals |-> SelectSeq2(df.data[r].vals, keep)]])]

\* a replace that changes nothing
replaceNothing(df, x) == df

\* line 199: df.replace(x, np.nan)
replace(df, x) ==
    [columns |-> df.columns,
     data |-> List([r \in 1..Len(df.data) |->
                 [time |-> df.data[r].time,
                  vals |-> List([j \in 1..Len(df.columns) |->
                              IF CellEq(df.data[r].vals[j], x) THEN NaN
                              ELSE df.data[r].vals[j]])]])]

(***************************************************************************)
(* resample_df (lines 27-37).                                              *)
(***************************************************************************)
IsDigit(c) == \E d \in 1..Len(Digits) : Digits[d] = c
DigitVal(c) == (CHOOSE d \in 1..Len(Digits) : Digits[d] = c) - 1

RECURSIVE NumDigits(_)
\* how many decimal digits a string begins with
NumDigits(s) == IF s # <<>> /\ IsDigit(Head(s)) THEN 1 + NumDigits(Tail(s)) ELSE 0

RECURSIVE IntOf(_)
IntOf(digits) == IF digits = <<>> THEN 0
                 ELSE 10 * IntOf(SubSeq(digits, 1, Len(digits) - 1))
                      + DigitVal(digits[Len(digits)])

Units == { << "h" >> }

\* pandas' to_offset(freq), which df.resample(freq) applies: [ok, ticks];
\* a count is optional, a count of zero and an unknown unit are ValueErrors
to_offset(freq) ==
    LET k    == NumDigits(freq)
        n    == IF k = 0 THEN 1 ELSE IntOf(SubSeq(freq, 1, k))
        unit == SubSeq(freq, k + 1, Len(freq))
    IN  IF unit \in Units /\ n > 0 THEN [ok |-> TRUE, ticks |-> n * TicksPerHour]
        ELSE [ok |-> FALSE, ticks |-> 0]

\* pd.Timedelta(freq): as to_offset, but a unit without a number is a ValueError
Timedelta(freq) ==
    LET k    == NumDigits(freq)
        unit == SubSeq(freq, k + 1, Len(freq))
    IN  IF unit \in Units /\ k > 0
        THEN [ok |-> TRUE, ticks |-> IntOf(SubSeq(freq, 1, k)) * TicksPerHour]
        ELSE [ok |-> FALSE, ticks |-> 0]

Min(S) == CHOOSE x \in S : \A y \in S : x <= y
Max(S) == CHOOSE x \in S : \A y \in S : x >= y

\* the mean of column j over the rows `rows` of df, NaN skipped; NaN when none is left
Mean(df, rows, j) ==
    LET RECURSIVE Sum(_)
        Sum(R) == IF R = {} THEN NaN
                  ELSE LET r == CHOOSE x \in R : TRUE
                           c == df.data[r].vals[j]
                           rest == Sum(R \ {r})
                       IN  [s |-> rest.s + c.s, n |-> rest.n + c.n]
    IN  Sum(rows)

\* df.resample(freq).mean() for a fixed frequency of F ticks: buckets of width F counted
\* from midnight of the first row's day, closed and labelled on the left, one output
\* row for every bucket from the first row's to the last row's
resample_mean(df, F) ==
    IF df.data = <<>> THEN df
    ELSE
    LET times  == { df.data[r].time : r \in 1..Len(df.data) }
        origin == (Min(times) \div DayTicks) * DayTicks
        first  == origin + ((Min(times) - origin) \div F) * F
        nb     == (Max(times) - first) \div F + 1
    IN  [columns |-> df.columns,
         data |-> List([b \in 1..nb |->
                     LET lo == first + (b - 1) * F
                         in_bucket == { r \in 1..Len(df.data) :
                                          lo <= df.data[r].time /\ df.data[r].time < lo + F }
                     IN  [time |-> lo,
                          vals |-> List([j \in 1..Len(df.columns) |->
                                           Mean(df, in_bucket, j)])]])]

\* line 34 without the half-bucket shift
ShiftIndexNot(df, delta) == df

\* line 34: df.index = df.index + delta
ShiftIndex(df, delta) ==
    [columns |-> df.columns,
     data |-> List([r \in 1..Len(df.data) |->
                 [time |-> df.data[r].time + delta, vals |-> df.data[r].vals]])]

\* a resample_df that swallows the ValueError and hands the table back
resample_df_silent(df, resample) ==
    IF to_offset(resample).ok /\ Timedelta(resample).ok
    THEN [raise |-> "", names |-> <<>>,
          df |-> ShiftIndex(resample_mean(df, to_offset(resample).ticks),
                            Timedelta(resample).ticks \div 2)]
    ELSE [raise |-> "", names |-> <<>>, df |-> df]

\* lines 31-37: [raise, names, df]; a ValueError of either parse becomes a Warning
\* whose message holds the resample string
resample_df(df, resample) ==
    IF to_offset(resample).ok /\ Timedelta(resample).ok
    THEN [raise |-> "", names |-> <<>>,
          df |-> ShiftIndex(resample_mean(df, to_offset(resample).ticks),
                            Timedelta(resample).ticks \div 2)]
    ELSE [raise |-> "Warning", names |-> resample, df |-> df]

(***************************************************************************)
(* The state.                                                              *)
(***************************************************************************)
VARIABLES
    args,              \* the call: entry point, instrument and the arguments given
    tqdm,              \* the environment: whether the progress-bar package is installed
    archive,           \* the remote archive: day -> file (the same for every species)
    storage,           \* the files on local storage: [dir, name, day]
    pc,                \* "call", "resolve", "built", "done"
    callNo,            \* 1, or 2 for a repeated call with the same arguments
    spacecraft,        \* stereo_sept_loader's locals ...
    species,
    path,
    dates,
    i,
    filelist,
    channels_dict_df,
    df,
    result,            \* how the call ended: [kind, error, names, value]
    retrieved,         \* the calls of pooch.retrieve so far: [day, progressbar, outcome]
    downloads          \* the days stereo_sept_download was called for so far

vars == << args, tqdm, archive, storage, pc, callNo, spacecraft, species, path, dates, i,
           filelist, channels_dict_df, df, result, retrieved, downloads >>

EmptyTable == [columns |-> <<>>, data |-> <<>>]
NoResult == [kind |-> "none", error |-> "", names |-> <<>>, value |-> "none"]
Raise(error, names) == [kind |-> "raise", error |-> error, names |-> names, value |-> "none"]
Return(value) == [kind |-> "return", error |-> "", names |-> <<>>, value |-> value]

(***************************************************************************)
(* stereo_sept_download (lines 40-86).                                     *)
(***************************************************************************)
\* pooch's cache directory, used when no path is given
PoochCache == << "/", "p" >>

\* lines 72-75: the spacecraft of the base URL; <<>> when `base` stays unbound
BaseOf(sc) == IF Lower(sc) = S_ahead \/ Lower(sc) = S_a THEN S_ahead
              ELSE IF Lower(sc) = S_behind \/ Lower(sc) = S_b THEN S_behind
              ELSE <<>>

\* lines 67-70 and 120-123
NormSpecies(sp) == IF Lower(sp) = S_e THEN S_ele
                   ELSE IF Lower(sp) = S_p \/ Lower(sp) = S_h \/ Lower(sp) = S_i THEN S_ion
                   ELSE sp

\* lines 124-127 and 253-256
NormSpacecraft(sc) == IF Lower(sc) = S_a \/ Lower(sc) = S_sta THEN S_ahead
                      ELSE IF Lower(sc) = S_b \/ Lower(sc) = S_stb THEN S_behind
                      ELSE sc

\* whether the archive serves  <base>/<year>/<file>
RemoteHas(base, file, viewing, day, arch) ==
    /\ day \in DOMAIN arch
    /\ \E sp \in { S_ele, S_ion } : file = FileName(base, sp, viewing, day)

\* pooch.retrieve(url, known_hash=None, fname, path, progressbar): a file already in
\* place is returned as it is; a progress bar without its package cannot be made;
\* else the download succeeds or fails as the network (net) and the archive decide
Retrieve(exists, remote, progressbar, tq, net) ==
    IF exists THEN "ok"
    ELSE IF progressbar /\ ~tq THEN "ModuleNotFoundError"
    ELSE IF remote /\ net = "ok" THEN "ok"
    ELSE "HTTPError"

\* the retrievals of lines 81-84 with the second made after any failure of the first
AttemptsRetry(day, exists, remote, tq, net) ==
    LET first == Retrieve(exists, remote, TRUE, tq, net)
    IN  IF first # "ok"
        THEN << [day |-> day, progressbar |-> TRUE, outcome |-> first],
                [day |-> day, progressbar |-> FALSE,
                 outcome |-> Retrieve(exists, remote, FALSE, tq, net)] >>
        ELSE << [day |-> day, progressbar |-> TRUE, outcome |-> first] >>

\* lines 81-84: the retrievals made, in order
Attempts(day, exists, remote, tq, net) ==
    LET first == Retrieve(exists, remote, TRUE, tq, net)
    IN  IF first = "ModuleNotFoundError"
        THEN << [day |-> day, progressbar |-> TRUE, outcome |-> first],
                [day |-> day, progressbar |-> FALSE,
                 outcome |-> Retrieve(exists, remote, FALSE, tq, net)] >>
        ELSE << [day |-> day, progressbar |-> TRUE, outcome |-> first] >>

\* the whole function: [raise, file, log, stored]
stereo_sept_download(day, sc, sp, viewing, pathv, st, arch, tq, net) ==
    LET p       == WithSep(pathv)
        sp1     == NormSpecies(sp)
        base    == BaseOf(sc)
        file    == FileName(sc, sp1, viewing, day)
        dir     == IF Truthy(p) THEN Resolve(p.chars) ELSE PoochCache
        exists  == \E e \in st : e.dir = dir /\ e.name = file
        log     == Attempts(day, exists, RemoteHas(base, file, viewing, day, arch), tq, net)
        outcome == log[Len(log)].outcome
    IN  IF base = <<>>
        THEN [raise |-> "UnboundLocalError", file |-> <<>>, log |-> <<>>, stored |-> {}]
        ELSE IF outcome # "ok"
        THEN [raise |-> outcome, file |-> <<>>, log |-> log, stored |-> {}]
        ELSE [raise |-> "", file |-> dir \o Sep \o file, log |-> log,
              stored |-> { [dir |-> dir, name |-> file, day |-> day] }]

(***************************************************************************)
(* stereo_sept_loader (lines 89-205), step by step.                        *)
(***************************************************************************)
Network == { "ok", "HTTPError" }

\* pd.date_range(start, end, freq='D'): start, start + 1 day, ... while <= end
date_range(start, end) ==
    LET a == start.day * TodSteps + start.tod
        b == end.day * TodSteps + end.tod
        n == IF b < a THEN 0 ELSE (b - a) \div TodSteps + 1
    IN  List([k \in 1..n |-> start.day + k - 1])

RECURSIVE npsort(_)
\* line 141: np.sort of a list of strings
npsort(list) ==
    IF list = <<>> THEN <<>>
    ELSE LET m == CHOOSE k \in 1..Len(list) :
                     \A j \in 1..Len(list) : ~StrLess(list[j], list[k])
         IN  << list[m] >> \o npsort(SubSeq(list, 1, m - 1) \o SubSeq(list, m + 1, Len(list)))

\* the file on local storage a path string names
FileAt(str, st, dir) == CHOOSE e \in st : e.dir = dir /\ e.name = Basename(str)

\* lines 184-188: the files of the list read and concatenated in list order
ReadAll(list, names, st, dir, arch) ==
    LET RECURSIVE R(_)
        R(k) == LET e == FileAt(list[k], st, dir)
                    t == read_csv(arch[e.day], e.day, names)
                IN  IF k = 1 THEN t ELSE concat(R(k - 1), t)
    IN  R(Len(list))

\* lines 129-130
DataDir(pathv) == IF Truthy(pathv) THEN pathv.chars ELSE Cwd \o Sep \o S_data

IsLoaderCall == args.entry = "stereo_sept_loader"
                \/ (args.entry = "stereo_load" /\ args.instrument = "SEPT")

\* stereo_load passes all_columns=False (line 266)
AllColumns == args.entry = "stereo_sept_loader" /\ args.all_columns

\* lines 120-133 (entered directly or through stereo_load, lines 253-267)
Enter ==
    /\ pc = "call"
    /\ IsLoaderCall
    /\ species' = NormSpecies(args.species)
    /\ spacecraft' = NormSpacecraft(args.spacecraft)
    /\ path' = DataDir(args.path)
    /\ dates' = date_range(args.startdate, args.enddate)
    /\ i' = 1
    /\ filelist' = <<>>
    /\ pc' = "resolve"
    /\ UNCHANGED << args, tqdm, archive, storage, callNo, channels_dict_df, df, result,
                    retrieved, downloads >>

\* the files glob.glob finds for day dates[i] (line 136)
GlobMatches == { e \in storage :
                   /\ e.dir = Resolve(path)
                   /\ Matches(e.name, PatternPrefix(spacecraft, species, args.viewing, dates[i])) }

\* lines 135-136, 140: a local match is taken
GlobHit ==
    /\ pc = "resolve"
    /\ i <= Len(dates)
    /\ \E e \in GlobMatches :
          filelist' = Append(filelist, GlobDir(path) \o Sep \o e.name)
    /\ i' = i + 1
    /\ UNCHANGED << args, tqdm, archive, storage, pc, callNo, spacecraft, species, path,
                    dates, channels_dict_df, df, result, retrieved, downloads >>

\* lines 137-140: no local match, the file is downloaded; an error ends the call
GlobMiss ==
    /\ pc = "resolve"
    /\ i <= Len(dates)
    /\ GlobMatches = {}
    /\ \E net \in Network :
       \E r \in { stereo_sept_download(dates[i], spacecraft, species, args.viewing,
                                       PyStr(path), storage, archive, tqdm, net) } :
              /\ downloads' = Append(downloads, dates[i])
              /\ retrieved' = retrieved \o r.log
              /\ storage' = storage \cup r.stored
              /\ IF r.raise # ""
                 THEN /\ result' = Raise(r.raise, <<>>)
                      /\ pc' = "done"
                      /\ UNCHANGED << filelist, i >>
                 ELSE /\ filelist' = Append(filelist, r.file)
                      /\ i' = i + 1
                      /\ UNCHANGED << result, pc >>
    /\ UNCHANGED << args, tqdm, archive, callNo, spacecraft, species, path, dates,
                    channels_dict_df, df >>

\* lines 141-199: sort, catalog, parse, concatenate, index, drop, replace
Build ==
    /\ pc = "resolve"
    /\ i > Len(dates)
    /\ filelist' = npsort(filelist)
    /\ IF ~Bound(species)
       THEN /\ result' = Raise("UnboundLocalError", <<>>)
            /\ pc' = "done"
            /\ UNCHANGED << channels_dict_df, df >>
       ELSE /\ channels_dict_df' = FromDict(ChannelsDict(species))
            /\ IF filelist = <<>>
               THEN /\ result' = Raise("IndexError", <<>>)
                    /\ pc' = "done"
                    /\ UNCHANGED df
               ELSE \E names \in { col_names(channels_dict_df') } :
                    \E read \in { ReadAll(filelist', names, storage, Resolve(path), archive) } :
                    \E raw \in { SetIndex(read) } :
                    \E cut \in { IF AllColumns THEN raw ELSE drop(raw) } :
                       /\ df' = replace(cut, Sentinel)
                       /\ pc' = "built"
                       /\ UNCHANGED result
    /\ UNCHANGED << args, tqdm, archive, storage, callNo, spacecraft, species, path, dates,
                    i, retrieved, downloads >>

\* lines 201-205: the optional resampling and the return
Finish ==
    /\ pc = "built"
    /\ IF args.resample.type = "str"
       THEN \E r \in { resample_df(df, args.resample.chars) } :
               IF r.raise # ""
               THEN /\ result' = Raise(r.raise, r.names)
                    /\ UNCHANGED df
               ELSE /\ df' = r.df
                    /\ result' = Return("table")
       ELSE /\ result' = Return("table")
            /\ UNCHANGED df
    /\ pc' = "done"
    /\ UNCHANGED << args, tqdm, archive, storage, callNo, spacecraft, species, path, dates,
                    i, filelist, channels_dict_df, retrieved, downloads >>

\* the same call made again after it has returned, no local file deleted
CallAgain ==
    /\ pc = "done"
    /\ IsLoaderCall
    /\ callNo = 1
    /\ result.kind = "return"
    /\ callNo' = 2
    /\ pc' = "call"
    /\ spacecraft' = <<>>
    /\ species' = <<>>
    /\ path' = <<>>
    /\ dates' = <<>>
    /\ i' = 0
    /\ filelist' = <<>>
    /\ channels_dict_df' = <<>>
    /\ df' = EmptyTable
    /\ result' = NoResult
    /\ retrieved' = <<>>
    /\ downloads' = <<>>
    /\ UNCHANGED << args, tqdm, archive, storage >>

\* stereo_sept_download called directly for the start date
DirectDownload ==
    /\ pc = "call"
    /\ args.entry = "stereo_sept_download"
    /\ \E net \in Network :
       \E r \in { stereo_sept_download(args.startdate.day, args.spacecraft, args.species,
                                       args.viewing, args.path, storage, archive, tqdm, net) } :
              /\ downloads' = Append(downloads, args.startdate.day)
              /\ retrieved' = retrieved \o r.log
              /\ storage' = storage \cup r.stored
              /\ result' = IF r.raise # "" THEN Raise(r.raise, <<>>) ELSE Return("path")
              /\ filelist' = IF r.raise # "" THEN <<>> ELSE << r.file >>
    /\ pc' = "done"
    /\ UNCHANGED << args, tqdm, archive, callNo, spacecraft, species, path, dates, i,
                    channels_dict_df, df >>

\* the table TimeSeries(...).to_dataframe() gives for the files Fido fetched
CdfTable(arch, day) ==
    [columns |-> << [k |-> "flux", i |-> 0] >>,
     data |-> List([r \in 1..Len(arch[day].rows) |->
                 [time |-> day * DayTicks + arch[day].rows[r].t,
                  vals |-> << Num(arch[day].rows[r].v) >>]])]

\* stereo_load for an instrument other than SEPT (lines 268-292): a RuntimeError of the
\* search or fetch is printed and ([], []) returned; resample_df's Warning is not caught
LoadCdf ==
    /\ pc = "call"
    /\ args.entry = "stereo_load"
    /\ args.instrument # "SEPT"
    /\ spacecraft' = NormSpacecraft(args.spacecraft)
    /\ \E fido \in { "ok", "RuntimeError" } :
          IF fido = "RuntimeError"
          THEN /\ result' = Return("list")
               /\ df' = EmptyTable
          ELSE \E t \in { CdfTable(archive, args.startdate.day) } :
                  IF args.resample.type = "str"
                  THEN \E r \in { resample_df(t, args.resample.chars) } :
                          IF r.raise # ""
                          THEN /\ result' = Raise(r.raise, r.names)
                               /\ df' = t
                          ELSE /\ result' = Return("table")
                               /\ df' = r.df
                  ELSE /\ result' = Return("table")
                       /\ df' = t
    /\ pc' = "done"
    /\ UNCHANGED << args, tqdm, archive, storage, callNo, species, path, dates, i, filelist,
                    channels_dict_df, retrieved, downloads >>

Next == Enter \/ GlobHit \/ GlobMiss \/ Build \/ Finish \/ CallAgain \/ DirectDownload
        \/ LoadCdf

(***************************************************************************)
(* The calls and environments explored.                                    *)
(***************************************************************************)
Horizon == LET RECURSIVE H(_)
               H(k) == IF k = 0 THEN 0 ELSE H(k - 1) + YearLen(FirstYear + k - 1)
           IN  H(NumYears)

\* ranges start where the day of the year gains a digit, in mid-year and at a year's end
StartDoys == { 8, 98, 200, 364, 365 }
StartDays == { d \in 0..(Horizon - 1) : DateOf(d).doy \in StartDoys }
MidYear == CHOOSE d \in StartDays : DateOf(d).doy = 200

P_abs == << "/", "d" >>
P_rel == << "d" >>
Paths == { None, PyStr(P_abs), PyStr(P_abs \o Sep), PyStr(P_rel), PyStr(P_rel \o Sep) }

S_x == << "x" >>
Spacecrafts == { S_a, S_ahead, S_b, S_behind, S_sta, << "A" >>, S_x }
Speciess == { S_e, S_ele, S_p, S_h, S_i, S_ion, << "E" >>, S_x }

S_notafrequency == << "n", "o", "t", "a", "f", "r", "e", "q", "u", "e", "n", "c", "y" >>
Resamples == { None, PyStr(<< "h" >>), PyStr(S_notafrequency) }
              \cup { PyStr(Str(n) \o << "h" >>) : n \in 1..MaxFreq }

\* flux and uncertainty values are non-negative intensities (in tenths) or the sentinel
Intensity(t) == 10 + 20 * (t % 2)

RECURSIVE Sorted(_)
Sorted(T) == IF T = {} THEN <<>> ELSE << Min(T) >> \o Sorted(T \ { Min(T) })

\* the files: up to MaxRows rows at increasing times, any of the rows (when gaps is
\* set) holding the sentinel, with or without missing fields
Files(gaps, missing) ==
    UNION { { [rows |-> List([r \in 1..Cardinality(T) |->
                          LET t == Sorted(T)[r]
                          IN  [t |-> t, v |-> IF t \in S THEN Sentinel ELSE Intensity(t)]]),
              missing |-> m] : S \in IF gaps THEN SUBSET T ELSE { {} }, m \in missing }
            : T \in { U \in SUBSET (0..(MaxTick - 1)) : U # {} /\ Cardinality(U) <= MaxRows } }

DefaultFile == [rows |-> << [t |-> 0, v |-> 10], [t |-> 1, v |-> 30] >>, missing |-> 0]

Call(entry, instrument, sc, sp, resample, pathv, allc, start, end) ==
    [entry |-> entry, instrument |-> instrument, spacecraft |-> sc, species |-> sp,
     viewing |-> S_sun, resample |-> resample, path |-> pathv, all_columns |-> allc,
     startdate |-> start, enddate |-> end]

\* the file of a day as a completed download leaves it on local storage
OnDisk(a, day) ==
    [dir |-> Resolve(DataDir(a.path)),
     name |-> FileName(NormSpacecraft(a.spacecraft), NormSpecies(a.species), a.viewing, day),
     day |-> day]

Known(a) == BaseOf(NormSpacecraft(a.spacecraft)) # <<>> /\ Bound(NormSpecies(a.species))

Scenario(a, tq, arch, have) ==
    [args |-> a, tqdm |-> tq, archive |-> arch,
     storage |-> IF Known(a) THEN { OnDisk(a, d) : d \in have } ELSE {}]

DefaultArchive(start, end) == [d \in start.day..end.day |-> DefaultFile]

\* date ranges with times of day, nothing or everything on local storage
DateScenarios ==
    { Scenario(Call("stereo_sept_loader", "SEPT", S_a, S_e, None, PyStr(P_abs), FALSE,
                    [day |-> d, tod |-> ts], [day |-> d + n - 1, tod |-> te]),
               TRUE,
               DefaultArchive([day |-> d], [day |-> d + n - 1]),
               IF all THEN d..(d + n - 1) ELSE {})
      : d \in StartDays, n \in 1..MaxDays, ts \in 0..(TodSteps - 1), te \in 0..(TodSteps - 1),
        all \in BOOLEAN }

\* the forms of the path argument, any part of the range on local storage
PathScenarios ==
    UNION { { Scenario(Call("stereo_sept_loader", "SEPT", S_a, S_e, None, pv, FALSE,
                            [day |-> d, tod |-> 0], [day |-> d + n - 1, tod |-> 0]),
                       tq,
                       DefaultArchive([day |-> d], [day |-> d + n - 1]),
                       have)
              : have \in SUBSET (d..(d + n - 1)),
                pv \in IF tq THEN Paths ELSE { PyStr(P_abs) } }
            : d \in { s \in StartDays : DateOf(s).year = FirstYear },
              n \in 1..MaxDays, tq \in BOOLEAN }

\* the contents of one local file, the species, the columns kept and the resampling
TableScenarios ==
    { Scenario(Call("stereo_sept_loader", "SEPT", S_a, sp, o.resample, PyStr(P_abs),
                    o.all_columns,
                    [day |-> MidYear, tod |-> 0], [day |-> MidYear, tod |-> 0]),
               TRUE, [d \in { MidYear } |-> f], { MidYear })
      : sp \in { S_e, S_p },
        o \in { x \in [resample : Resamples, all_columns : BOOLEAN] :
                  x.all_columns => x.resample = None },
        f \in Files(TRUE, { 0 }) }

\* files whose rows lack trailing fields
MalformedScenarios ==
    { Scenario(Call("stereo_sept_loader", "SEPT", S_a, sp, None, PyStr(P_abs), allc,
                    [day |-> MidYear, tod |-> 0], [day |-> MidYear, tod |-> 0]),
               TRUE, [d \in { MidYear } |-> f], { MidYear })
      : sp \in { S_e, S_p }, allc \in BOOLEAN, f \in Files(FALSE, 1..MaxMissing) }

\* stereo_load, for SEPT and for another instrument
LoadScenarios ==
    { Scenario(Call("stereo_load", ins, S_a, S_e, rs, PyStr(P_abs), FALSE,
                    [day |-> MidYear, tod |-> 0], [day |-> MidYear + 1, tod |-> 0]),
               TRUE,
               DefaultArchive([day |-> MidYear], [day |-> MidYear + 1]),
               have)
      : ins \in { "SEPT", "HET" }, rs \in Resamples,
        have \in { {}, { MidYear, MidYear + 1 } } }

\* every spelling of the spacecraft and species codes, through both functions
CodeScenarios ==
    { Scenario(Call(entry, "SEPT", sc, sp, None, PyStr(P_abs), FALSE,
                    [day |-> MidYear, tod |-> 0], [day |-> MidYear, tod |-> 0]),
               TRUE, DefaultArchive([day |-> MidYear], [day |-> MidYear]), have)
      : entry \in { "stereo_sept_loader", "stereo_sept_download" },
        sc \in Spacecrafts, sp \in Speciess, have \in { {}, { MidYear } } }

Scenarios == { x \in DateScenarios : date_range(x.args.startdate, x.args.enddate) # <<>> }
             \cup PathScenarios \cup TableScenarios \cup MalformedScenarios
             \cup LoadScenarios \cup CodeScenarios

Init ==
    /\ \E x \in Scenarios :
          /\ args = x.args
          /\ tqdm = x.tqdm
          /\ archive = x.archive
          /\ storage = x.storage
    /\ pc = "call"
    /\ callNo = 1
    /\ spacecraft = <<>>
    /\ species = <<>>
    /\ path = <<>>
    /\ dates = <<>>
    /\ i = 0
    /\ filelist = <<>>
    /\ channels_dict_df = <<>>
    /\ df = EmptyTable
    /\ result = NoResult
    /\ retrieved = <<>>
    /\ downloads = <<>>

Spec == Init /\ [][Next]_vars

(***************************************************************************)
(* What the claims speak of.                                               *)
(***************************************************************************)
Returned == pc = "done" /\ result.kind = "return"
ReturnedTable == Returned /\ result.value = "table"
Raised == pc = "done" /\ result.kind = "raise"

Flux(col) == col.k = "ch" \/ col.k = "err_ch"

\* the rows of the parsed files in the order of the file list, each with its file
SourceRows ==
    LET RECURSIVE S(_)
        S(k) == IF k > Len(filelist) THEN <<>>
                ELSE LET e == FileAt(filelist[k], storage, Resolve(path))
                     IN  [r \in 1..Len(archive[e.day].rows) |->
                            [day |-> e.day, row |-> archive[e.day].rows[r],
                             missing |-> archive[e.day].missing]] \o S(k + 1)
    IN  S(1)

\* the field of a source row that column col of the table is read from, NaN if the
\* row has no such field
SourceCell(src, col) ==
    LET names == col_names(channels_dict_df)
        q == CHOOSE n \in 1..Len(names) : names[n] = col
        f == Fields(src.row, src.day, Len(channels_dict_df), src.missing)
    IN  IF q <= Len(f) THEN Num(f[q]) ELSE NaN

\* the calendar times of the source rows, file after file in ascending date order
RowsByDate ==
    LET RECURSIVE S(_)
        S(k) == IF k > Len(dates) THEN <<>>
                ELSE [r \in 1..Len(archive[dates[k]].rows) |->
                        [time |-> dates[k] * DayTicks + archive[dates[k]].rows[r].t,
                         v |-> archive[dates[k]].rows[r].v]] \o S(k + 1)
    IN  S(1)

Unparseable == args.resample.type = "str" /\ ~to_offset(args.resample.chars).ok

\* the days whose files the call has read
ParsedDays == IF IsLoaderCall THEN { dates[k] : k \in 1..Len(dates) }
              ELSE { args.startdate.day }

\* the calendar times of the rows read
SourceTimes == UNION { { d * DayTicks + archive[d].rows[r].t : r \in 1..Len(archive[d].rows) }
                       : d \in ParsedDays }

\* how many of the retrievals so far were made for a day
Retrievals(day) == Cardinality({ k \in 1..Len(retrieved) : retrieved[k].day = day })

RecognizedSpacecraft(sc) == Lower(sc) \in { S_a, S_ahead, S_b, S_behind, S_sta, S_stb }
RecognizedSpecies(sp) == Lower(sp) \in { S_e, S_ele, S_p, S_h, S_i, S_ion }

\* floor(400*l*u / a), computed without forming 400*l*u
Quot(l, u, a) == 400 * ((l * u) \div a) + (400 * ((l * u) % a)) \div a

\* m hundredths is sqrt(l*u) tenths rounded to the nearest hundredth:
\* (2m-1)^2 <= 400*l*u < (2m+1)^2
RoundedGeoMean(m, l, u) ==
    /\ 2 * m - 1 <= Quot(l, u, 2 * m - 1)
    /\ 2 * m + 1 > Quot(l, u, 2 * m + 1)

CatalogShape ==
    /\ species = S_ele => Len(channels_dict_df) = 15
    /\ species = S_ion => Len(channels_dict_df) = 30
    /\ \A k \in 1..Len(channels_dict_df) : channels_dict_df[k].bin = k + 1

(***************************************************************************)
(* The claims.                                                             *)
(***************************************************************************)

\* C1: in every table stereo_sept_loader returns, no cell of a ch_<id> or err_ch_<id>
\* column equals the sentinel -9999.900; without resampling, every cell whose source
\* field held the sentinel is NaN, and with resampling the sentinel cells are counted
\* in no mean.
C1_NoSentinel ==
    (ReturnedTable /\ IsLoaderCall) =>
        /\ \A r \in 1..Len(df.data) : \A j \in 1..Len(df.columns) :
              Flux(df.columns[j]) => ~CellEq(df.data[r].vals[j], Sentinel)
        /\ args.resample.type # "str" =>
              /\ Len(df.data) = Len(SourceRows)
              /\ \A r \in 1..Len(df.data) : \A j \in 1..Len(df.columns) :
                    (Flux(df.columns[j])
                       /\ CellEq(SourceCell(SourceRows[r], df.columns[j]), Sentinel))
                    => IsNaN(df.data[r].vals[j])
        /\ args.resample.type = "str" =>
              \A j \in 1..Len(df.columns) :
                 Flux(df.columns[j]) =>
                    Mean(df, 1..Len(df.data), j).n
                    = Cardinality({ r \in 1..Len(SourceRows) :
                         LET c == SourceCell(SourceRows[r], df.columns[j])
                         IN  ~IsNaN(c) /\ ~CellEq(c, Sentinel) })

\* C1's case: a resampled table was returned from a file holding the sentinel in one
\* row and a value in another
C1_Witness ==
    /\ ReturnedTable /\ IsLoaderCall
    /\ args.resample.type = "str"
    /\ \E r \in 1..Len(SourceRows) : SourceRows[r].row.v = Sentinel
    /\ \E r \in 1..Len(SourceRows) : SourceRows[r].row.v # Sentinel

\* C2: a second call with the same arguments, made after the first has returned and
\* with no local file deleted, never calls stereo_sept_download.
C2_SecondCallAllLocal == callNo = 2 => downloads = <<>>

\* C3: the file list holds exactly one file for each calendar day from startdate's day
\* to enddate's day, both included, and no other.
C3_OneFilePerDay ==
    (pc = "built" /\ IsLoaderCall) =>
        /\ Len(filelist) = args.enddate.day - args.startdate.day + 1
        /\ \A d \in args.startdate.day..args.enddate.day :
              \E k \in 1..Len(filelist) :
                 Basename(filelist[k]) = FileName(spacecraft, species, args.viewing, d)

\* C4: without resampling, the rows of the returned table are the rows of the first
\* day's file, then the second day's, and so on in ascending date order, each source
\* row once, whatever the form of the path argument.
C4_RowsInDateOrder ==
    (ReturnedTable /\ IsLoaderCall /\ args.resample.type # "str") =>
        /\ Len(df.data) = Len(RowsByDate)
        /\ \A r \in 1..Len(df.data) : df.data[r].time = RowsByDate[r].time

\* C5: in a table resampled with the fixed frequency F, adjacent rows are F apart
\* (empty buckets included) and the first timestamp is the start of the first bucket,
\* the bucket of the F-grid from midnight that holds the first source row, plus F/2;
\* the last bucket holds the last source row.
C5_BucketCentres ==
    (ReturnedTable /\ args.resample.type = "str") =>
        LET F  == to_offset(args.resample.chars).ticks
            t0 == Min(SourceTimes)
            n  == Len(df.data)
        IN  /\ n > 0
            /\ \E start \in (t0 - F + 1)..t0 :
                  /\ (start - (t0 \div DayTicks) * DayTicks) % F = 0
                  /\ 2 * (df.data[1].time - start) = F
            /\ \A r \in 1..(n - 1) : df.data[r + 1].time - df.data[r].time = F
            /\ 2 * (Max(SourceTimes) - df.data[n].time) < F

\* C5's case: a resampled table one of whose inner buckets holds no source row
C5_Witness ==
    /\ ReturnedTable /\ args.resample.type = "str"
    /\ \E r \in 2..(Len(df.data) - 1) :
          \A t \in SourceTimes :
             LET F == to_offset(args.resample.chars).ticks
             IN  2 * (t - df.data[r].time) >= F \/ 2 * (df.data[r].time - t) > F

\* C6 as stated: whenever the resample argument is not a parseable frequency, the call
\* ends in an error that names the bad value.
C6_AlwaysWarning ==
    (pc = "done" /\ Unparseable) => result = Raise("Warning", args.resample.chars)

\* C6, amended: whenever the resample argument is not a parseable frequency the call
\* never returns a table; once the table is built it ends in the Warning that names
\* the bad value; before that, only a failed download ends the loader (in that error)
\* and only a RuntimeError of the search or fetch ends stereo_load (returning []).
C6_NeverSilent ==
    (pc = "done" /\ Unparseable) =>
        /\ ~ReturnedTable
        /\ df # EmptyTable => result = Raise("Warning", args.resample.chars)
        /\ \/ result = Raise("Warning", args.resample.chars)
           \/ (IsLoaderCall /\ result = Raise("HTTPError", <<>>))
           \/ (~IsLoaderCall /\ result = Return("list"))

\* C6's case: stereo_load, given "notafrequency", ended in the Warning naming it
C6_Witness ==
    /\ pc = "done"
    /\ args.entry = "stereo_load"
    /\ args.resample = PyStr(S_notafrequency)
    /\ result = Raise("Warning", S_notafrequency)

\* C7: when the spacecraft or the species is not a recognized code (the loader's own
\* aliases sta and stb counted as recognized), the call ends in an error before a
\* local match is used, before pooch.retrieve is called and before a file is parsed,
\* and returns neither a path nor a table.
C7_FailFast ==
    (~RecognizedSpacecraft(args.spacecraft) \/ ~RecognizedSpecies(args.species)) =>
        /\ filelist = <<>>
        /\ retrieved = <<>>
        /\ df = EmptyTable
        /\ pc = "done" => result.kind = "raise"

\* C8: when a row of a source file has not the column count of the species, the load
\* ends in an error and returns no table.
C8_MalformedAborts ==
    (pc = "done" /\ IsLoaderCall /\ \E d \in ParsedDays : archive[d].missing > 0) =>
        result.kind = "raise"

\* C9 as stated: 15 rows with bins 2..16 or 30 rows with bins 2..31, and in every row
\* the mean energy squared equals lower * upper.
C9_ExactGeoMean ==
    channels_dict_df # <<>> =>
        /\ CatalogShape
        /\ \A k \in 1..Len(channels_dict_df) :
              LET row == channels_dict_df[k]
              IN  /\ row.mean_E % 10 = 0
                  /\ (row.mean_E \div 10) * (row.mean_E \div 10)
                     = row.ch_strings.lower * row.ch_strings.upper

\* C9, amended: 15 rows with bins 2..16 or 30 rows with bins 2..31, and in every row
\* the mean energy is the geometric mean of the label's bounds rounded to the nearest
\* 0.01 keV.
C9_RoundedGeoMean ==
    channels_dict_df # <<>> =>
        /\ CatalogShape
        /\ \A k \in 1..Len(channels_dict_df) :
              RoundedGeoMean(channels_dict_df[k].mean_E,
                             channels_dict_df[k].ch_strings.lower,
                             channels_dict_df[k].ch_strings.upper)

\* C9's case: the ion catalog was returned with a table
C9_Witness == ReturnedTable /\ species = S_ion /\ Len(channels_dict_df) = 30

\* C10 as stated: when the fetch fails for a day with no local file, the loader ends
\* in that error with no table and no catalog, pooch.retrieve has been called at most
\* once for that day, and not at all for a later day.
C10_SingleRetrieval ==
    (Raised /\ IsLoaderCall /\ result.error = "HTTPError") =>
        /\ df = EmptyTable /\ channels_dict_df = <<>>
        /\ Retrievals(dates[i]) <= 1
        /\ \A k \in (i + 1)..Len(dates) : Retrievals(dates[k]) = 0

\* C10, amended: ... stereo_sept_download has been called once for that day and
\* pooch.retrieve at most twice, a second time (without progress bar) only after the
\* first raised ModuleNotFoundError and never after a failed download; neither is
\* called for a later day.
C10_NoRetryOfFailedDownload ==
    (Raised /\ IsLoaderCall /\ result.error = "HTTPError") =>
        /\ df = EmptyTable /\ channels_dict_df = <<>>
        /\ Cardinality({ k \in 1..Len(downloads) : downloads[k] = dates[i] }) = 1
        /\ Retrievals(dates[i]) <= 2
        /\ \A k \in 1..(Len(retrieved) - 1) :
              retrieved[k].day = retrieved[k + 1].day =>
                 /\ retrieved[k].outcome = "ModuleNotFoundError"
                 /\ ~retrieved[k + 1].progressbar
        /\ \A k \in (i + 1)..Len(dates) :
              /\ Retrievals(dates[k]) = 0
              /\ \A n \in 1..Len(downloads) : downloads[n] # dates[k]

\* C10's case: the download of a middle day of the range failed
C10_Witness ==
    /\ Raised /\ IsLoaderCall /\ result.error = "HTTPError"
    /\ 1 < i /\ i < Len(dates)
    /\ retrieved[Len(retrieved)].outcome = "HTTPError"

====
